---- MODULE Spec2Model ----
(***************************************************************************)
(* Mini-XML attribute store (mxml-attr.c) and node get functions           *)
(* (mxml-get.c) as a state machine.                                        *)
(*                                                                         *)
(* Strings are sequences of one-character strings; a C string's           *)
(* terminating NUL is the position after the last element.  Pointers are  *)
(* heap addresses 1..MaxAddr, NULL is 0.  A slot of the attribute array   *)
(* that was never written holds JUNK, a slot pointer whose block has been *)
(* released is RELEASED.                                                   *)
(***************************************************************************)
EXTENDS Integers, Sequences, FiniteSets, TLC

VARIABLES nodes, attrs, num_attrs, heap, fault, last, got

vars == <<nodes, attrs, num_attrs, heap, fault, last, got>>

\* Number of heap addresses: malloc/realloc/strdup fail when none is free.
MaxAddr == 5

\* Number of siblings that follow the first child in the accessor trees.
MaxSiblings == 1

NULL == 0
JUNK == -1
RELEASED == -2

Addr == 1..MaxAddr

\* ------------------------------------------------------------------ strings

\* The character at position i of a C string, "NUL" past its end.
CharAt(s, i) == IF i <= Len(s) THEN s[i] ELSE "NUL"

RECURSIVE strncmpFrom(_, _, _, _)
strncmpFrom(s1, s2, i, n) ==
    IF i > n THEN 0
    ELSE IF CharAt(s1, i) # CharAt(s2, i) THEN 1
    ELSE IF CharAt(s1, i) = "NUL" THEN 0
    ELSE strncmpFrom(s1, s2, i + 1, n)

\* strncmp(): 0 when the first n characters (up to a NUL) agree, else non-zero
\* (the callers only test for zero).
strncmp(s1, s2, n) == strncmpFrom(s1, s2, 1, n)

\* Mutant of strcmp: compares only as many characters as the second string
\* has, as strncmp(s1, s2, strlen(s2)) would.
strcmp_prefix(s1, s2) == strncmpFrom(s1, s2, 1, Len(s2))

\* strcmp(): strncmp without a length limit.
strcmp(s1, s2) == strncmpFrom(s1, s2, 1, Len(s1) + Len(s2) + 1)

\* The strings callers pass as attribute names; pointer 0 is NULL.
CallerNames == << <<>>, <<"a">>, <<"A">> >>

\* The strings callers pass as attribute values; pointer 0 is NULL.
CallerValues == << <<"x">>, <<"y">> >>

NameArgs == 0..Len(CallerNames)
ValueArgs == 0..Len(CallerValues)

\* ------------------------------------------------------------------ heap

FreeBlock == [live |-> FALSE, str |-> <<>>, slots |-> <<>>]
JunkSlot == [name |-> JUNK, value |-> JUNK]

\* The address malloc hands out: the lowest one not in use, NULL when the
\* heap is exhausted.
FirstFree(h) ==
    IF \E a \in Addr : ~h[a].live
    THEN CHOOSE a \in Addr : ~h[a].live /\ \A b \in Addr : b < a => h[b].live
    ELSE NULL

IsLive(h, p) == p \in Addr /\ h[p].live

\* strdup(s): a new block holding s, or NULL.
strdup(h, s, fail) ==
    LET a == FirstFree(h) IN
    IF fail \/ a = NULL THEN [heap |-> h, p |-> NULL]
    ELSE [heap |-> [h EXCEPT ![a] = [live |-> TRUE, str |-> s, slots |-> <<>>]],
          p |-> a]

\* malloc(n * sizeof(mxml_attr_t)): n uninitialised slots, or NULL.
mallocSlots(h, n, fail) ==
    LET a == FirstFree(h) IN
    IF fail \/ a = NULL THEN [heap |-> h, p |-> NULL]
    ELSE [heap |-> [h EXCEPT ![a] = [live |-> TRUE, str |-> <<>>,
                                     slots |-> [i \in 1..n |-> JunkSlot]]],
          p |-> a]

\* The first n slots of a block resized to n slots: the old contents, then junk.
Resized(slots, n) ==
    [i \in 1..n |-> IF i <= Len(slots) THEN slots[i] ELSE JunkSlot]

\* realloc(p, n * sizeof(mxml_attr_t)) of a live block p: NULL with p untouched,
\* or the block grown in place, or the contents moved to a new block and p
\* released.
reallocSlots(h, p, n, fail, move) ==
    LET a == FirstFree(h) IN
    IF fail THEN [heap |-> h, p |-> NULL]
    ELSE IF move /\ a # NULL
    THEN [heap |-> [h EXCEPT ![a] = [live |-> TRUE, str |-> <<>>,
                                     slots |-> Resized(h[p].slots, n)],
                             ![p] = FreeBlock],
          p |-> a]
    ELSE [heap |-> [h EXCEPT ![p].slots = Resized(h[p].slots, n)], p |-> p]

\* free(p): releases a live block; free(NULL) does nothing.  Releasing anything
\* else is a fault.
free(h, p) ==
    IF p = NULL THEN [heap |-> h, fault |-> FALSE]
    ELSE IF IsLive(h, p) THEN [heap |-> [h EXCEPT ![p] = FreeBlock], fault |-> FALSE]
    ELSE [heap |-> h, fault |-> TRUE]

\* ------------------------------------------------------------------ nodes

NodeTypes == {"MXML_ELEMENT", "MXML_INTEGER", "MXML_OPAQUE", "MXML_TEXT", "MXML_CUSTOM"}

\* node->type of a non-NULL node.
TypeOf(nd, node) == nd[node].type

\* ------------------------------------------------------------------ attributes

\* What an operation of the attribute store leaves behind: the heap, the
\* element's attrs pointer and num_attrs, whether it touched a block that is not
\* live, its return values, the calls of mxml_error, the blocks it released,
\* the allocator call made for the array, and the branch it took.
Result(h, at, n, f, rc, errs, freed, aop, outcome) ==
    [heap |-> h, attrs |-> at, num |-> n, fault |-> f, rc |-> rc, errs |-> errs,
     freed |-> freed, aop |-> aop, outcome |-> outcome]

\* Whether attrs[i] (1-based) lies in a live array block.
ValidSlot(h, at, i) == IsLive(h, at) /\ i <= Len(h[at].slots)

\* Mutant of Scan: the test of strcmp is inverted, "if (strcmp(...))".
RECURSIVE Scan_inverted(_, _, _, _, _)
Scan_inverted(h, at, i, n, name) ==
    IF i > n THEN [idx |-> 0, fault |-> FALSE]
    ELSE IF ~ValidSlot(h, at, i) THEN [idx |-> 0, fault |-> TRUE]
    ELSE IF ~IsLive(h, h[at].slots[i].name) THEN [idx |-> 0, fault |-> TRUE]
    ELSE IF strcmp(h[h[at].slots[i].name].str, name) # 0
    THEN [idx |-> i, fault |-> FALSE]
    ELSE Scan_inverted(h, at, i + 1, n, name)

\* The loop "for (i = num_attrs, attr = attrs; i > 0; i--, attr++)
\* if (!strcmp(attr->name, name))": the 1-based position of the first match,
\* 0 for none.
RECURSIVE Scan(_, _, _, _, _)
Scan(h, at, i, n, name) ==
    IF i > n THEN [idx |-> 0, fault |-> FALSE]
    ELSE IF ~ValidSlot(h, at, i) THEN [idx |-> 0, fault |-> TRUE]
    ELSE IF ~IsLive(h, h[at].slots[i].name) THEN [idx |-> 0, fault |-> TRUE]
    ELSE IF strcmp(h[h[at].slots[i].name].str, name) = 0
    THEN [idx |-> i, fault |-> FALSE]
    ELSE Scan(h, at, i + 1, n, name)

\* Mutant of mxml_set_attr: num_attrs is incremented before the duplicated
\* name is checked.
mxml_set_attr_count_early(h, at, n, name, value, failArr, moveArr, failName) ==
    LET sc == Scan(h, at, 1, n, name) IN
    IF sc.fault THEN Result(h, at, n, TRUE, 0, 0, {}, "none", "fault")
    ELSE IF sc.idx > 0 THEN
        LET old == h[at].slots[sc.idx].value
            fr == IF old # NULL THEN free(h, old) ELSE [heap |-> h, fault |-> FALSE]
        IN  Result([fr.heap EXCEPT ![at].slots[sc.idx].value = value], at, n,
                   fr.fault, 0, 0, IF old # NULL THEN {old} ELSE {}, "none", "replaced")
    ELSE IF n # 0 /\ ~IsLive(h, at)
    THEN Result(h, at, n, TRUE, 0, 0, {}, "realloc", "fault")
    ELSE
        LET aop == IF n = 0 THEN "malloc" ELSE "realloc"
            al == IF n = 0 THEN mallocSlots(h, 1, failArr)
                  ELSE reallocSlots(h, at, n + 1, failArr, moveArr)
            moved == IF n # 0 /\ al.p # NULL /\ al.p # at THEN {at} ELSE {}
        IN  IF al.p = NULL
            THEN Result(h, at, n, FALSE, -1, 1, {}, aop, "array_fail")
            ELSE
                LET sd == strdup(al.heap, name, failName)
                    h2 == [sd.heap EXCEPT ![al.p].slots[n + 1].name = sd.p]
                IN  IF sd.p = NULL
                    THEN Result(h2, al.p, n + 1, FALSE, -1, 1, moved, aop, "name_fail")
                    ELSE Result([h2 EXCEPT ![al.p].slots[n + 1].value = value],
                                al.p, n + 1, FALSE, 0, 0, moved, aop, "added")

\* Mutant of mxml_set_attr: the array is allocated with malloc when attrs is
\* NULL, "if (!node->value.element.attrs)", and with realloc otherwise.
mxml_set_attr_realloc_nonnull(h, at, n, name, value, failArr, moveArr, failName) ==
    LET sc == Scan(h, at, 1, n, name) IN
    IF sc.fault THEN Result(h, at, n, TRUE, 0, 0, {}, "none", "fault")
    ELSE IF sc.idx > 0 THEN
        LET old == h[at].slots[sc.idx].value
            fr == IF old # NULL THEN free(h, old) ELSE [heap |-> h, fault |-> FALSE]
        IN  Result([fr.heap EXCEPT ![at].slots[sc.idx].value = value], at, n,
                   fr.fault, 0, 0, IF old # NULL THEN {old} ELSE {}, "none", "replaced")
    ELSE IF at # NULL /\ ~IsLive(h, at)
    THEN Result(h, at, n, TRUE, 0, 0, {}, "realloc", "fault")
    ELSE
        LET aop == IF at = NULL THEN "malloc" ELSE "realloc"
            al == IF at = NULL THEN mallocSlots(h, 1, failArr)
                  ELSE reallocSlots(h, at, n + 1, failArr, moveArr)
            moved == IF at # NULL /\ al.p # NULL /\ al.p # at THEN {at} ELSE {}
        IN  IF al.p = NULL
            THEN Result(h, at, n, FALSE, -1, 1, {}, aop, "array_fail")
            ELSE
                LET sd == strdup(al.heap, name, failName)
                    h2 == [sd.heap EXCEPT ![al.p].slots[n + 1].name = sd.p]
                IN  IF sd.p = NULL
                    THEN Result(h2, al.p, n, FALSE, -1, 1, moved, aop, "name_fail")
                    ELSE Result([h2 EXCEPT ![al.p].slots[n + 1].value = value],
                                al.p, n + 1, FALSE, 0, 0, moved, aop, "added")

\* mxml_set_attr(): replace the value of an existing attribute or append a new
\* one.  failArr, moveArr and failName choose the outcome of malloc/realloc
\* and of strdup(name).
mxml_set_attr(h, at, n, name, value, failArr, moveArr, failName) ==
    LET sc == Scan(h, at, 1, n, name) IN
    IF sc.fault THEN Result(h, at, n, TRUE, 0, 0, {}, "none", "fault")
    ELSE IF sc.idx > 0 THEN
        LET old == h[at].slots[sc.idx].value
            fr == IF old # NULL THEN free(h, old) ELSE [heap |-> h, fault |-> FALSE]
        IN  Result([fr.heap EXCEPT ![at].slots[sc.idx].value = value], at, n,
                   fr.fault, 0, 0, IF old # NULL THEN {old} ELSE {}, "none", "replaced")
    ELSE IF n # 0 /\ ~IsLive(h, at)
    THEN Result(h, at, n, TRUE, 0, 0, {}, "realloc", "fault")
    ELSE
        LET aop == IF n = 0 THEN "malloc" ELSE "realloc"
            al == IF n = 0 THEN mallocSlots(h, 1, failArr)
                  ELSE reallocSlots(h, at, n + 1, failArr, moveArr)
            moved == IF n # 0 /\ al.p # NULL /\ al.p # at THEN {at} ELSE {}
        IN  IF al.p = NULL
            THEN Result(h, at, n, FALSE, -1, 1, {}, aop, "array_fail")
            ELSE
                LET sd == strdup(al.heap, name, failName)
                    h2 == [sd.heap EXCEPT ![al.p].slots[n + 1].name = sd.p]
                IN  IF sd.p = NULL
                    THEN Result(h2, al.p, n, FALSE, -1, 1, moved, aop, "name_fail")
                    ELSE Result([h2 EXCEPT ![al.p].slots[n + 1].value = value],
                                al.p, n + 1, FALSE, 0, 0, moved, aop, "added")

\* The tail of mxmlElementSetAttr()/mxmlElementSetAttrf():
\* "if (mxml_set_attr(node, name, value)) free(value);".
SetOrFree(h, at, n, name, valuec, failArr, moveArr, failName) ==
    LET r == mxml_set_attr(h, at, n, name, valuec, failArr, moveArr, failName) IN
    IF r.rc # 0 /\ ~r.fault
    THEN LET fr == free(r.heap, valuec) IN
         [r EXCEPT !.heap = fr.heap, !.fault = fr.fault,
                   !.freed = IF valuec # NULL THEN r.freed \cup {valuec} ELSE r.freed]
    ELSE r

\* Mutant of mxmlElementSetAttr: the range check also rejects an empty name,
\* "|| !*name".
mxmlElementSetAttr_rejects_empty(nd, h, at, n, node, name, value, failVal, failArr, moveArr, failName) ==
    IF node = NULL \/ TypeOf(nd, node) # "MXML_ELEMENT" \/ name = NULL
       \/ CallerNames[name] = <<>>
    THEN [r |-> Result(h, at, n, FALSE, 0, 0, {}, "none", "invalid"), valuec |-> NULL]
    ELSE
        LET vd == IF value # NULL THEN strdup(h, CallerValues[value], failVal)
                  ELSE [heap |-> h, p |-> NULL]
        IN  [r |-> SetOrFree(vd.heap, at, n, CallerNames[name], vd.p,
                             failArr, moveArr, failName),
             valuec |-> vd.p]

\* mxmlElementSetAttr(): node is NULL (0) or a node id, name and value are
\* NULL (0) or caller strings; failVal chooses the outcome of strdup(value).
\* The result also carries valuec, the copy of the value.
mxmlElementSetAttr(nd, h, at, n, node, name, value, failVal, failArr, moveArr, failName) ==
    IF node = NULL \/ TypeOf(nd, node) # "MXML_ELEMENT" \/ name = NULL
    THEN [r |-> Result(h, at, n, FALSE, 0, 0, {}, "none", "invalid"), valuec |-> NULL]
    ELSE
        LET vd == IF value # NULL THEN strdup(h, CallerValues[value], failVal)
                  ELSE [heap |-> h, p |-> NULL]
        IN  [r |-> SetOrFree(vd.heap, at, n, CallerNames[name], vd.p,
                             failArr, moveArr, failName),
             valuec |-> vd.p]

\* _mxml_vstrdupf(): the formatted text in a new block, or NULL.
vstrdupf(h, text, fail) == strdup(h, text, fail)

\* mxmlElementSetAttrf(): format is NULL (0) or a caller string whose formatted
\* text is CallerValues[format].
mxmlElementSetAttrf(nd, h, at, n, node, name, format, failVal, failArr, moveArr, failName) ==
    IF node = NULL \/ TypeOf(nd, node) # "MXML_ELEMENT" \/ name = NULL \/ format = NULL
    THEN [r |-> Result(h, at, n, FALSE, 0, 0, {}, "none", "invalid"), valuec |-> NULL]
    ELSE
        LET vd == vstrdupf(h, CallerValues[format], failVal) IN
        IF vd.p = NULL
        THEN [r |-> Result(h, at, n, FALSE, 0, 1, {}, "none", "format_fail"),
              valuec |-> NULL]
        ELSE [r |-> SetOrFree(vd.heap, at, n, CallerNames[name], vd.p,
                              failArr, moveArr, failName),
              valuec |-> vd.p]

\* Mutant of memmoveDown: one slot too few is moved, "(i - 1) * sizeof".
memmoveDown_short(slots, k, i) ==
    [j \in 1..Len(slots) |-> IF j >= k /\ j < k + i - 1 THEN slots[j + 1] ELSE slots[j]]

\* memmove(attr, attr + 1, i * sizeof(mxml_attr_t)) with attr = &slots[k]:
\* slots k+1..k+i move down by one; the slot at k+i keeps its old contents.
memmoveDown(slots, k, i) ==
    [j \in 1..Len(slots) |-> IF j >= k /\ j < k + i THEN slots[j + 1] ELSE slots[j]]

\* mxmlElementDeleteAttr().
mxmlElementDeleteAttr(nd, h, at, n, node, name) ==
    IF node = NULL \/ TypeOf(nd, node) # "MXML_ELEMENT" \/ name = NULL
    THEN Result(h, at, n, FALSE, 0, 0, {}, "none", "invalid")
    ELSE
        LET sc == Scan(h, at, 1, n, CallerNames[name]) IN
        IF sc.fault THEN Result(h, at, n, TRUE, 0, 0, {}, "none", "fault")
        ELSE IF sc.idx = 0 THEN Result(h, at, n, FALSE, 0, 0, {}, "none", "missing")
        ELSE
            LET slot == h[at].slots[sc.idx]
                f1 == free(h, slot.name)
                f2 == free(f1.heap, slot.value)
                i == n - sc.idx
                h3 == IF i > 0
                      THEN [f2.heap EXCEPT ![at].slots = memmoveDown(@, sc.idx, i)]
                      ELSE f2.heap
                f4 == IF n - 1 = 0 THEN free(h3, at) ELSE [heap |-> h3, fault |-> FALSE]
            IN  Result(f4.heap, at, n - 1, f1.fault \/ f2.fault \/ f4.fault, 0, 0,
                       ({slot.name, slot.value} \ {NULL})
                           \cup (IF n - 1 = 0 THEN {at} ELSE {}),
                       "none", "deleted")

\* mxmlElementGetAttr(): the value pointer of the named attribute, or NULL.
mxmlElementGetAttr(nd, h, at, n, node, name) ==
    IF node = NULL \/ TypeOf(nd, node) # "MXML_ELEMENT" \/ name = NULL
    THEN [ret |-> NULL, fault |-> FALSE]
    ELSE
        LET sc == Scan(h, at, 1, n, CallerNames[name]) IN
        IF sc.fault THEN [ret |-> NULL, fault |-> TRUE]
        ELSE IF sc.idx > 0 THEN [ret |-> h[at].slots[sc.idx].value, fault |-> FALSE]
        ELSE [ret |-> NULL, fault |-> FALSE]

\* mxmlElementGetAttrByIndex(): idx is 0-based; the value pointer and, through
\* the name out-parameter, the name pointer (retName stays NULL when nothing
\* is returned).
mxmlElementGetAttrByIndex(nd, h, at, n, node, idx) ==
    IF node = NULL \/ TypeOf(nd, node) # "MXML_ELEMENT" \/ idx < 0 \/ idx >= n
    THEN [ret |-> NULL, retName |-> NULL, fault |-> FALSE]
    ELSE IF ~ValidSlot(h, at, idx + 1)
    THEN [ret |-> NULL, retName |-> NULL, fault |-> TRUE]
    ELSE [ret |-> h[at].slots[idx + 1].value,
          retName |-> h[at].slots[idx + 1].name, fault |-> FALSE]

\* mxmlElementGetAttrCount().
mxmlElementGetAttrCount(nd, n, node) ==
    IF node # NULL /\ TypeOf(nd, node) = "MXML_ELEMENT" THEN n ELSE 0

\* ------------------------------------------------------------------ trees

\* The name prefix of a CDATA element and the length strncmp is given.
CDATA == <<"!", "[", "C", "D", "A", "T", "A", "[">>
CDATA_LEN == 8

Root == 1
First == 2
Siblings == 3..(2 + MaxSiblings)
Grand == 3 + MaxSiblings
NodeIds == 1..Grand

\* The links the tree-construction code has wired: First is the first child
\* of Root, Siblings follow it, Grand is the first child of First.
ParentOf(id) == IF id = Root THEN NULL ELSE IF id = Grand THEN First ELSE Root
ChildOf(id) == IF id = Root THEN First ELSE IF id = First THEN Grand ELSE NULL
NextOf(id) == IF id >= First /\ id < 2 + MaxSiblings THEN id + 1 ELSE NULL

\* A node of the given type; the members of the value union it does not use
\* are left at 0 / empty.  An Integer node holds 40 + id, an Opaque, Text or
\* Custom node a string naming it.
MkNode(id, type, name, ws) ==
    [type |-> type,
     name |-> IF type = "MXML_ELEMENT" THEN name ELSE <<>>,
     integer |-> IF type = "MXML_INTEGER" THEN 40 + id ELSE 0,
     opaque |-> IF type = "MXML_OPAQUE" THEN <<"o", ToString(id)>> ELSE <<>>,
     text |-> IF type = "MXML_TEXT" THEN <<"t", ToString(id)>> ELSE <<>>,
     whitespace |-> type = "MXML_TEXT" /\ ws,
     custom |-> IF type = "MXML_CUSTOM" THEN <<"c", ToString(id)>> ELSE <<>>,
     parent |-> ParentOf(id), child |-> ChildOf(id), next |-> NextOf(id)]

ElemNames == {<<"e">>, CDATA, CDATA \o <<"x">>, SubSeq(CDATA, 1, 7)}

\* What Root and First may be: an element of any name, a text node with either
\* whitespace flag, or another value node.
InnerChoices ==
    [type : {"MXML_ELEMENT"}, name : ElemNames, ws : {FALSE}]
    \cup [type : {"MXML_TEXT"}, name : {<<>>}, ws : BOOLEAN]
    \cup [type : NodeTypes \ {"MXML_ELEMENT", "MXML_TEXT"}, name : {<<>>}, ws : {FALSE}]

\* What the later siblings and the grandchild may be.
LeafChoices ==
    [type : {"MXML_ELEMENT"}, name : {<<"e">>}, ws : {FALSE}]
    \cup [type : NodeTypes \ {"MXML_ELEMENT"}, name : {<<>>}, ws : {TRUE}]

Tree(c) == [id \in NodeIds |-> MkNode(id, c[id].type, c[id].name, c[id].ws)]

\* The tree the attribute operations run on: Root is the element that owns the
\* attribute store, First is a text node.
StoreTree ==
    [id \in NodeIds |->
        IF id = Root THEN MkNode(id, "MXML_ELEMENT", <<"e">>, FALSE)
        ELSE IF id = First THEN MkNode(id, "MXML_TEXT", <<>>, TRUE)
        ELSE MkNode(id, "MXML_INTEGER", <<>>, FALSE)]

\* ------------------------------------------------------------------ get functions

\* A returned pointer: {} is NULL, {s} points at the string s.
Ptr(s) == {s}
NullPtr == {}

\* Mutant of mxmlGetCDATA: falls back to the first child like the other get
\* functions.
mxmlGetCDATA_child(nd, node) ==
    IF node = NULL \/ TypeOf(nd, node) # "MXML_ELEMENT" THEN NullPtr
    ELSE IF strncmp(nd[node].name, CDATA, CDATA_LEN) = 0
    THEN Ptr(SubSeq(nd[node].name, CDATA_LEN + 1, Len(nd[node].name)))
    ELSE IF nd[node].child # NULL /\ TypeOf(nd, nd[node].child) = "MXML_ELEMENT"
            /\ strncmp(nd[nd[node].child].name, CDATA, CDATA_LEN) = 0
    THEN Ptr(SubSeq(nd[nd[node].child].name, CDATA_LEN + 1, Len(nd[nd[node].child].name)))
    ELSE NullPtr

\* mxmlGetCDATA().
mxmlGetCDATA(nd, node) ==
    IF node = NULL \/ TypeOf(nd, node) # "MXML_ELEMENT"
       \/ strncmp(nd[node].name, CDATA, CDATA_LEN) # 0
    THEN NullPtr
    ELSE Ptr(SubSeq(nd[node].name, CDATA_LEN + 1, Len(nd[node].name)))

\* mxmlGetCustom().
mxmlGetCustom(nd, node) ==
    IF node = NULL THEN NullPtr
    ELSE IF TypeOf(nd, node) = "MXML_CUSTOM" THEN Ptr(nd[node].custom)
    ELSE IF TypeOf(nd, node) = "MXML_ELEMENT" /\ nd[node].child # NULL
            /\ TypeOf(nd, nd[node].child) = "MXML_CUSTOM"
    THEN Ptr(nd[nd[node].child].custom)
    ELSE NullPtr

\* mxmlGetElement().
mxmlGetElement(nd, node) ==
    IF node = NULL \/ TypeOf(nd, node) # "MXML_ELEMENT" THEN NullPtr
    ELSE Ptr(nd[node].name)

\* Mutant of mxmlGetInteger: descends through first children until it finds
\* an integer.
RECURSIVE mxmlGetInteger_deep(_, _)
mxmlGetInteger_deep(nd, node) ==
    IF node = NULL THEN 0
    ELSE IF TypeOf(nd, node) = "MXML_INTEGER" THEN nd[node].integer
    ELSE IF TypeOf(nd, node) = "MXML_ELEMENT" THEN mxmlGetInteger_deep(nd, nd[node].child)
    ELSE 0

\* mxmlGetInteger().
mxmlGetInteger(nd, node) ==
    IF node = NULL THEN 0
    ELSE IF TypeOf(nd, node) = "MXML_INTEGER" THEN nd[node].integer
    ELSE IF TypeOf(nd, node) = "MXML_ELEMENT" /\ nd[node].child # NULL
            /\ TypeOf(nd, nd[node].child) = "MXML_INTEGER"
    THEN nd[nd[node].child].integer
    ELSE 0

\* mxmlGetOpaque().
mxmlGetOpaque(nd, node) ==
    IF node = NULL THEN NullPtr
    ELSE IF TypeOf(nd, node) = "MXML_OPAQUE" THEN Ptr(nd[node].opaque)
    ELSE IF TypeOf(nd, node) = "MXML_ELEMENT" /\ nd[node].child # NULL
            /\ TypeOf(nd, nd[node].child) = "MXML_OPAQUE"
    THEN Ptr(nd[nd[node].child].opaque)
    ELSE NullPtr

\* mxmlGetText(): wsOut says whether the whitespace out-parameter is non-NULL;
\* ws is {} when nothing is written through it, else {flag}.
mxmlGetText(nd, node, wsOut) ==
    IF node = NULL
    THEN [ret |-> NullPtr, ws |-> IF wsOut THEN {FALSE} ELSE {}]
    ELSE IF TypeOf(nd, node) = "MXML_TEXT"
    THEN [ret |-> Ptr(nd[node].text),
          ws |-> IF wsOut THEN {nd[node].whitespace} ELSE {}]
    ELSE IF TypeOf(nd, node) = "MXML_ELEMENT" /\ nd[node].child # NULL
            /\ TypeOf(nd, nd[node].child) = "MXML_TEXT"
    THEN [ret |-> Ptr(nd[nd[node].child].text),
          ws |-> IF wsOut THEN {nd[nd[node].child].whitespace} ELSE {}]
    ELSE [ret |-> NullPtr, ws |-> IF wsOut THEN {FALSE} ELSE {}]

\* ------------------------------------------------------------------ address renaming

\* malloc may hand out any free address, so runs that differ only by a
\* renaming of the addresses are the same run.  After each call the addresses
\* are renamed to a fixed order: the attribute array, then each attribute's
\* name and value in array order, then the live blocks nothing refers to, then
\* the released block attrs still points at, then the rest.

Range(q) == {q[i] : i \in 1..Len(q)}

AddPtr(q, p) == IF p \in Addr /\ p \notin Range(q) THEN Append(q, p) ELSE q

RECURSIVE AddEntries(_, _, _, _, _)
AddEntries(q, h, at, i, n) ==
    IF i > n \/ ~ValidSlot(h, at, i) THEN q
    ELSE AddEntries(AddPtr(AddPtr(q, h[at].slots[i].name), h[at].slots[i].value),
                    h, at, i + 1, n)

\* The elements of a set of addresses in increasing order.
Sorted(S) ==
    [i \in 1..Cardinality(S) |-> CHOOSE a \in S : Cardinality({b \in S : b < a}) = i - 1]

AddrOrder(h, at, n) ==
    LET owned == AddEntries(IF IsLive(h, at) THEN <<at>> ELSE <<>>, h, at, 1, n)
        lost == owned \o Sorted({a \in Addr : h[a].live /\ a \notin Range(owned)})
        dangling == AddPtr(lost, at)
    IN  dangling \o Sorted(Addr \ Range(dangling))

\* The new address of p under the order q (NULL and JUNK keep their value).
Renamed(q, p) == IF p \in Addr THEN CHOOSE i \in 1..Len(q) : q[i] = p ELSE p

\* A pointer kept in an array slot whose block has been released: which
\* block it was no longer matters, any use of it is a fault.
SlotPtr(q, h, p) == IF p \in Addr /\ ~h[p].live THEN RELEASED ELSE Renamed(q, p)

RenamedHeap(q, h) ==
    [a \in Addr |->
        [h[q[a]] EXCEPT !.slots =
            [i \in 1..Len(h[q[a]].slots) |->
                [name |-> SlotPtr(q, h, h[q[a]].slots[i].name),
                 value |-> SlotPtr(q, h, h[q[a]].slots[i].value)]]]]

\* ------------------------------------------------------------------ state machine

IdxArgs == (-1)..Len(CallerNames)
NodeArgs == {NULL, Root, First}

EmptyHeap == [a \in Addr |-> FreeBlock]

\* The record of a call of the attribute store: its arguments, the branch it
\* took, the calls of mxml_error it made, the blocks it released, the
\* allocator call it made for the array, the copy of the value it made, what
\* it returned, and the store as it was before the call.
Call(op, node, name, value, idx, r, valuec, ret, retName) ==
    [op |-> op, node |-> node, name |-> name, value |-> value, idx |-> idx,
     outcome |-> r.outcome, rc |-> r.rc, errs |-> r.errs, freed |-> r.freed,
     aop |-> r.aop, valuec |-> valuec, ret |-> ret, retName |-> retName,
     pre |-> [attrs |-> attrs, num |-> num_attrs, heap |-> heap]]

NoCall ==
    [op |-> "none", node |-> NULL, name |-> NULL, value |-> NULL, idx |-> 0,
     outcome |-> "none", rc |-> 0, errs |-> 0, freed |-> {},
     aop |-> "none", valuec |-> NULL, ret |-> NULL, retName |-> NULL,
     pre |-> [attrs |-> NULL, num |-> 0, heap |-> EmptyHeap]]

NoGot == [op |-> "none", node |-> NULL, ret |-> NullPtr, int |-> 0, ws |-> {}]

\* An element as the tree-construction code hands it over: no attributes.
InitStore ==
    /\ attrs = NULL
    /\ num_attrs = 0
    /\ heap = EmptyHeap
    /\ fault = FALSE
    /\ last = NoCall
    /\ got = NoGot

Init ==
    /\ nodes = StoreTree
    /\ InitStore

\* The store after an operation that left r behind and is recorded as c.
Commit(r, c) ==
    \E q \in {AddrOrder(r.heap, r.attrs, r.num)} :
    /\ attrs' = Renamed(q, r.attrs)
    /\ num_attrs' = r.num
    /\ heap' = RenamedHeap(q, r.heap)
    /\ fault' = r.fault
    /\ last' = [c EXCEPT !.freed = {Renamed(q, a) : a \in @},
                         !.valuec = Renamed(q, @),
                         !.ret = IF c.op = "count" THEN @ ELSE Renamed(q, @),
                         !.retName = Renamed(q, @),
                         !.pre = [attrs |-> Renamed(q, @.attrs), num |-> @.num,
                                  heap |-> RenamedHeap(q, @.heap)]]
    /\ UNCHANGED <<nodes, got>>

\* The outcomes drawn for the allocations of one call: strdup(value), the
\* malloc/realloc of the array (and whether realloc moves the block), and
\* strdup(name).  Nothing is drawn for an allocation the call does not reach:
\* after a failed array allocation the name is not duplicated.
AllocChoices ==
    {f \in [val : BOOLEAN, arr : BOOLEAN, move : BOOLEAN, name : BOOLEAN] :
        f.arr => ~f.move /\ ~f.name}
NoFail == [val |-> FALSE, arr |-> FALSE, move |-> FALSE, name |-> FALSE]

\* The caller is between calls.
Idle == ~fault /\ last.op = "none"

SetAttr ==
    /\ Idle
    /\ \E node \in NodeArgs, name \in NameArgs, value \in ValueArgs, f \in AllocChoices :
        \E s \in {mxmlElementSetAttr(nodes, heap, attrs, num_attrs, node, name, value,
                                     f.val, f.arr, f.move, f.name)} :
            /\ s.r.outcome = "invalid" => f = NoFail
            /\ value = NULL => ~f.val
            /\ Commit(s.r, Call("set", node, name, value, 0, s.r, s.valuec, NULL, NULL))

SetAttrf ==
    /\ Idle
    /\ \E node \in NodeArgs, name \in NameArgs, format \in ValueArgs, f \in AllocChoices :
        \E s \in {mxmlElementSetAttrf(nodes, heap, attrs, num_attrs, node, name, format,
                                      f.val, f.arr, f.move, f.name)} :
            /\ s.r.outcome = "invalid" => f = NoFail
            /\ Commit(s.r, Call("setf", node, name, format, 0, s.r, s.valuec, NULL, NULL))

DeleteAttr ==
    /\ Idle
    /\ \E node \in NodeArgs, name \in NameArgs :
        \E r \in {mxmlElementDeleteAttr(nodes, heap, attrs, num_attrs, node, name)} :
            Commit(r, Call("delete", node, name, NULL, 0, r, NULL, NULL, NULL))

\* What a call that only reads leaves behind: the store as it was.
Read(f) == Result(heap, attrs, num_attrs, f, 0, 0, {}, "none", "read")

GetAttr ==
    /\ Idle
    /\ \E node \in NodeArgs, name \in NameArgs :
        \E g \in {mxmlElementGetAttr(nodes, heap, attrs, num_attrs, node, name)} :
            Commit(Read(g.fault),
                   Call("get", node, name, NULL, 0, Read(g.fault), NULL, g.ret, NULL))

GetAttrByIndex ==
    /\ Idle
    /\ \E node \in NodeArgs, idx \in IdxArgs :
        \E g \in {mxmlElementGetAttrByIndex(nodes, heap, attrs, num_attrs, node, idx)} :
            Commit(Read(g.fault),
                   Call("getByIndex", node, NULL, NULL, idx, Read(g.fault), NULL,
                        g.ret, g.retName))

GetAttrCount ==
    /\ Idle
    /\ \E node \in NodeArgs :
        Commit(Read(FALSE),
               Call("count", node, NULL, NULL, 0, Read(FALSE), NULL,
                    mxmlElementGetAttrCount(nodes, num_attrs, node), NULL))

\* The call returns to the caller, which may then make the next one.
Return ==
    /\ ~fault
    /\ last.op # "none"
    /\ last' = NoCall
    /\ UNCHANGED <<nodes, attrs, num_attrs, heap, fault, got>>

Next ==
    \/ SetAttr
    \/ SetAttrf
    \/ DeleteAttr
    \/ GetAttr
    \/ GetAttrByIndex
    \/ GetAttrCount
    \/ Return

Spec == Init /\ [][Next]_vars

\* The get functions over every tree of the bounded family.
InitGet ==
    /\ \E ci \in [{Root, First} -> InnerChoices],
          cl \in [Siblings \cup {Grand} -> LeafChoices] :
            nodes = Tree(ci @@ cl)
    /\ InitStore

Got(op, node, ret, int, ws) ==
    /\ got.op = "none"
    /\ got' = [op |-> op, node |-> node, ret |-> ret, int |-> int, ws |-> ws]
    /\ UNCHANGED <<nodes, attrs, num_attrs, heap, fault, last>>

GetArgs == {NULL} \cup NodeIds

GetCDATA == \E node \in GetArgs : Got("getCDATA", node, mxmlGetCDATA(nodes, node), 0, {})

GetCustom == \E node \in GetArgs : Got("getCustom", node, mxmlGetCustom(nodes, node), 0, {})

GetElement == \E node \in GetArgs : Got("getElement", node, mxmlGetElement(nodes, node), 0, {})

GetInteger == \E node \in GetArgs : Got("getInteger", node, NullPtr, mxmlGetInteger(nodes, node), {})

GetOpaque == \E node \in GetArgs : Got("getOpaque", node, mxmlGetOpaque(nodes, node), 0, {})

GetText ==
    \E node \in GetArgs, wsOut \in BOOLEAN :
        LET g == mxmlGetText(nodes, node, wsOut)
        IN  Got("getText", node, g.ret, 0, g.ws)

\* The get function returns to the caller.
ReturnGet ==
    /\ got.op # "none"
    /\ got' = NoGot
    /\ UNCHANGED <<nodes, attrs, num_attrs, heap, fault, last>>

NextGet ==
    \/ GetCDATA
    \/ GetCustom
    \/ GetElement
    \/ GetInteger
    \/ GetOpaque
    \/ GetText
    \/ ReturnGet

SpecGet == InitGet /\ [][NextGet]_vars

\* ------------------------------------------------------------------ observation

\* What a caller sees behind a returned string pointer.
Str(h, p) ==
    IF p = NULL THEN NullPtr
    ELSE IF IsLive(h, p) THEN Ptr(h[p].str)
    ELSE Ptr(<<"?">>)

\* The (name, value) pairs mxmlElementGetAttrByIndex yields for the indices
\* 0..n-1 of the element, as a sequence.
Entries(h, at, n) ==
    [i \in 1..n |->
        LET g == mxmlElementGetAttrByIndex(nodes, h, at, n, Root, i - 1)
        IN  [name |-> Str(h, g.retName), value |-> Str(h, g.ret)]]

NowEntries == Entries(heap, attrs, num_attrs)
PreEntries == Entries(last.pre.heap, last.pre.attrs, last.pre.num)

\* What mxmlElementGetAttr yields for a caller name, now and before the call.
NowGet(name) ==
    Str(heap, mxmlElementGetAttr(nodes, heap, attrs, num_attrs, Root, name).ret)
PreGet(name) ==
    Str(last.pre.heap,
        mxmlElementGetAttr(nodes, last.pre.heap, last.pre.attrs, last.pre.num,
                           Root, name).ret)

PrePresent(name) ==
    \E i \in 1..last.pre.num : PreEntries[i].name = Ptr(CallerNames[name])

\* The last call was a set on the element with a name (and, for the
\* formatted set, a format).
ValidSet ==
    /\ last.op \in {"set", "setf"}
    /\ last.node = Root
    /\ last.name # NULL
    /\ last.op = "setf" => last.value # NULL

\* The value the last set was given, and whether its copy was made.
GivenValue == IF last.value = NULL THEN NullPtr ELSE Ptr(CallerValues[last.value])
ValueCopied == last.value = NULL \/ last.valuec # NULL

StoreUnchanged ==
    /\ heap = last.pre.heap
    /\ attrs = last.pre.attrs
    /\ num_attrs = last.pre.num

\* The sequence q without its k-th element.
Without(q, k) == [i \in 1..(Len(q) - 1) |-> IF i < k THEN q[i] ELSE q[i + 1]]

\* ------------------------------------------------------------------ claims

\* C1: no two entries of the store have the same name (exact match); a set
\* that succeeds on a name already present leaves the count unchanged and
\* makes getAttribute return the value given, a set that succeeds on a new
\* name adds one entry with that value -- so two sets of one name on an empty
\* store leave count 1 and the second value.
C1_UniqueOverwrite ==
    /\ \A i, j \in 1..num_attrs :
        i # j => NowEntries[i].name # NowEntries[j].name
    /\ (ValidSet /\ ValueCopied /\ PrePresent(last.name)) =>
        /\ last.outcome = "replaced"
        /\ mxmlElementGetAttrCount(nodes, num_attrs, Root) = last.pre.num
        /\ NowGet(last.name) = GivenValue
    /\ (ValidSet /\ ValueCopied /\ last.outcome = "added") =>
        /\ ~PrePresent(last.name)
        /\ mxmlElementGetAttrCount(nodes, num_attrs, Root) = last.pre.num + 1
        /\ NowGet(last.name) = GivenValue

\* C1 witness: a set replaced the value "x" of the only attribute by "y".
C1_Witness ==
    /\ ValidSet /\ last.op = "set" /\ last.outcome = "replaced"
    /\ last.pre.num = 1 /\ num_attrs = 1
    /\ PreGet(last.name) = Ptr(<<"x">>)
    /\ NowGet(last.name) = Ptr(<<"y">>)

\* C2: the entries seen by index are the names present, in insertion order: a
\* first-time set appends at index count, a repeated set leaves every index
\* and name (and every other value) as it was, a delete of the entry at index
\* k closes the gap keeping the other entries intact and in order, and no
\* other call changes the sequence.
C2_OrderAndCompaction ==
    /\ last.outcome = "added" =>
        NowEntries = Append(PreEntries,
                            [name |-> Ptr(CallerNames[last.name]),
                             value |-> Str(heap, last.valuec)])
    /\ last.outcome = "replaced" =>
        /\ Len(NowEntries) = Len(PreEntries)
        /\ \A i \in 1..Len(PreEntries) :
            /\ NowEntries[i].name = PreEntries[i].name
            /\ PreEntries[i].name # Ptr(CallerNames[last.name])
                => NowEntries[i] = PreEntries[i]
    /\ last.outcome = "deleted" =>
        \E k \in 1..Len(PreEntries) :
            /\ PreEntries[k].name = Ptr(CallerNames[last.name])
            /\ NowEntries = Without(PreEntries, k)
            /\ mxmlElementGetAttrCount(nodes, num_attrs, Root) = last.pre.num - 1
    /\ (last.op # "none" /\ last.outcome \notin {"added", "replaced", "deleted"}) =>
        NowEntries = PreEntries

\* C2 witness: the middle one of three attributes was deleted.
C2_Witness ==
    /\ last.op = "delete" /\ last.outcome = "deleted"
    /\ last.pre.num = 3
    /\ PreEntries[2].name = Ptr(CallerNames[last.name])
    /\ NowEntries = <<PreEntries[1], PreEntries[3]>>

\* Whether an entry of the store holds the pointer p as its value.
Referenced(p) ==
    \E i \in 1..num_attrs :
        ValidSlot(heap, attrs, i) /\ heap[attrs].slots[i].value \in {p, RELEASED}

\* C3: a set that fails because the array cannot grow or the name cannot be
\* duplicated calls the error sink exactly once and leaves the count and
\* every (name, value) pair seen by index or by name as before; the value it
\* was given is not referenced by the store.
C3_FailedSetKeepsStore ==
    (last.op \in {"set", "setf"} /\ last.outcome \in {"array_fail", "name_fail"}) =>
        /\ last.errs = 1
        /\ mxmlElementGetAttrCount(nodes, num_attrs, Root) = last.pre.num
        /\ NowEntries = PreEntries
        /\ \A name \in 1..Len(CallerNames) : NowGet(name) = PreGet(name)
        /\ last.valuec # NULL => ~Referenced(last.valuec)

\* C3 witness: with two attributes stored, realloc moved the array and the
\* duplication of the name then failed, the set having been given a value.
C3_Witness ==
    /\ last.op = "set" /\ last.outcome = "name_fail"
    /\ last.pre.num = 2
    /\ last.valuec # NULL
    /\ attrs # last.pre.attrs

\* The blocks the store owns: the array attrs points at and the name and
\* value of every entry.
Owned ==
    (IF IsLive(heap, attrs) THEN {attrs} ELSE {})
    \cup {heap[attrs].slots[i].name : i \in {j \in 1..num_attrs : ValidSlot(heap, attrs, j)}}
    \cup {heap[attrs].slots[i].value : i \in {j \in 1..num_attrs : ValidSlot(heap, attrs, j)}}

\* C4 (as claimed): the value handed to a failed set is released by that
\* call, and every block that is not released is owned by the store.
C4_NoLeak ==
    /\ (last.op \in {"set", "setf"} /\ last.rc # 0 /\ last.valuec # NULL) =>
        /\ last.valuec \in last.freed
        /\ ~IsLive(heap, last.valuec)
    /\ \A a \in Addr : heap[a].live => a \in Owned

\* C5 (as claimed): a delete that removes the last attribute releases the
\* array and leaves the array pointer empty; a delete that leaves attributes
\* neither releases nor reallocates the array.
C5_ArrayReleasedAtZero ==
    (last.op = "delete" /\ last.outcome = "deleted") =>
        /\ num_attrs = 0 =>
            /\ last.pre.attrs \in last.freed
            /\ attrs = NULL
        /\ num_attrs > 0 =>
            /\ attrs = last.pre.attrs
            /\ IsLive(heap, attrs)
            /\ attrs \notin last.freed

\* The caller name that is the empty string.
EmptyName == CHOOSE i \in 1..Len(CallerNames) : CallerNames[i] = <<>>

C7_DeleteMissing ==
    (/\ last.op = "delete"
     /\ \/ last.node = NULL
        \/ TypeOf(nodes, last.node) # "MXML_ELEMENT"
        \/ last.name = NULL
        \/ ~PrePresent(last.name)) =>
        /\ last.outcome \in {"invalid", "missing"}
        /\ StoreUnchanged
        /\ NowEntries = PreEntries
        /\ last.freed = {}
        /\ last.errs = 0

\* C7 witness: a delete of a name that is not among the two stored.
C7_Witness ==
    /\ last.op = "delete" /\ last.node = Root /\ last.name # NULL
    /\ last.outcome = "missing"
    /\ last.pre.num = 2

\* C10: no call touches a block that is not live or releases one twice; with
\* no attributes a get by name or by index returns none; a set allocates the
\* array with malloc exactly when the store holds no attribute, and gives
\* realloc only a live array.
C10_MemorySafe ==
    /\ ~fault
    /\ (last.op \in {"get", "getByIndex"} /\ last.pre.num = 0) =>
        last.ret = NULL /\ last.retName = NULL
    /\ (last.op \in {"set", "setf"} /\ last.aop # "none") =>
        /\ last.aop = "malloc" <=> last.pre.num = 0
        /\ last.aop = "realloc" => IsLive(last.pre.heap, last.pre.attrs)

\* C10 witness: a set added an attribute, with malloc, to a store whose array
\* had been released by the delete of its last attribute.
C10_Witness ==
    /\ last.op = "set" /\ last.outcome = "added" /\ last.aop = "malloc"
    /\ last.pre.num = 0
    /\ last.pre.attrs # NULL
    /\ ~IsLive(last.pre.heap, last.pre.attrs)

\* ------------------------------------------------------------------ claims on the get functions

\* The node type a get function looks for.
Wanted(op) ==
    CASE op = "getInteger" -> "MXML_INTEGER"
      [] op = "getOpaque" -> "MXML_OPAQUE"
      [] op = "getText" -> "MXML_TEXT"
      [] op = "getCustom" -> "MXML_CUSTOM"

\* What the last get function returned, as one value.
Answer ==
    CASE got.op = "getInteger" -> <<got.int>>
      [] got.op = "getText" -> <<got.ret, got.ws>>
      [] OTHER -> <<got.ret>>

\* What a node of the wanted type holds.
Held(op, id) ==
    CASE op = "getInteger" -> <<nodes[id].integer>>
      [] op = "getOpaque" -> <<Ptr(nodes[id].opaque)>>
      [] op = "getText" ->
            <<Ptr(nodes[id].text), IF got.ws = {} THEN {} ELSE {nodes[id].whitespace}>>
      [] op = "getCustom" -> <<Ptr(nodes[id].custom)>>

\* The sentinel of a get function.
Sentinel(op) ==
    CASE op = "getInteger" -> <<0>>
      [] op = "getText" -> <<NullPtr, IF got.ws = {} THEN {} ELSE {FALSE}>>
      [] OTHER -> <<NullPtr>>

\* C8: getInteger, getOpaque, getText and getCustom return the node's own
\* value when it has the wanted type, else the first child's value when the
\* node is an element whose first child has the wanted type, else the
\* sentinel (with the whitespace flag false); the value never comes from a
\* later child, a grandchild, or a child of a node that is no element.
C8_FirstChildOnly ==
    got.op \in {"getInteger", "getOpaque", "getText", "getCustom"} =>
        /\ got.node = NULL => Answer = Sentinel(got.op)
        /\ got.node # NULL =>
            LET type == nodes[got.node].type
                child == nodes[got.node].child
            IN  /\ type = Wanted(got.op) => Answer = Held(got.op, got.node)
                /\ (type = "MXML_ELEMENT" /\ child # NULL
                        /\ nodes[child].type = Wanted(got.op))
                    => Answer = Held(got.op, child)
                /\ (type # Wanted(got.op)
                        /\ ~(type = "MXML_ELEMENT" /\ child # NULL
                                /\ nodes[child].type = Wanted(got.op)))
                    => Answer = Sentinel(got.op)
                /\ \A id \in NodeIds \ {got.node, child} :
                    nodes[id].type = Wanted(got.op) => Answer # Held(got.op, id)
                /\ (type # "MXML_ELEMENT" /\ type # Wanted(got.op))
                    => Answer = Sentinel(got.op)

\* C8 witness: getInteger of an element whose first child is an element
\* wrapping an integer returned 0.
C8_Witness ==
    /\ got.op = "getInteger" /\ got.node = Root /\ got.int = 0
    /\ nodes[Root].type = "MXML_ELEMENT"
    /\ nodes[First].type = "MXML_ELEMENT"
    /\ nodes[Grand].type = "MXML_INTEGER"

\* Whether a name begins with the CDATA marker.
HasMarker(name) == Len(name) >= Len(CDATA) /\ SubSeq(name, 1, Len(CDATA)) = CDATA

\* C9: getCDATA returns a value exactly for an element whose own name begins
\* with the CDATA marker, and the value is the rest of that name; the first
\* child is never consulted; getElement returns an element's whole name, the
\* marker included, and none for any other node.
C9_CDATA ==
    /\ got.op = "getCDATA" =>
        /\ got.ret # NullPtr <=>
            /\ got.node # NULL
            /\ nodes[got.node].type = "MXML_ELEMENT"
            /\ HasMarker(nodes[got.node].name)
        /\ \A rest \in got.ret : CDATA \o rest = nodes[got.node].name
    /\ got.op = "getElement" =>
        got.ret = IF got.node # NULL /\ nodes[got.node].type = "MXML_ELEMENT"
                  THEN Ptr(nodes[got.node].name)
                  ELSE NullPtr

\* C9 witness: getCDATA of a CDATA element, the first child of an ordinary
\* element, returned the text after the marker.
C9_Witness ==
    /\ got.op = "getCDATA" /\ got.node = First
    /\ nodes[Root].type = "MXML_ELEMENT" /\ nodes[Root].name = <<"e">>
    /\ nodes[First].type = "MXML_ELEMENT"
    /\ nodes[First].name = CDATA \o <<"x">>
    /\ got.ret = Ptr(<<"x">>)

====
